---- MODULE Spec2Model ----
(***************************************************************************)
(* Model of gcp-vm-manager: the PySide6 front end (gui.py) with its worker *)
(* thread, and the text-menu program (main.py).                            *)
(*                                                                         *)
(* Threads of the GUI program:                                             *)
(*   - the GUI thread runs the Qt event loop: button clicks, timers and    *)
(*     queued signal deliveries are handlers that run one at a time;       *)
(*   - the worker QThread runs an event loop of its own; a VMWorker slot   *)
(*     posted to it runs there and blocks in the remote call.              *)
(* QTimer.singleShot(0, self.worker.<slot>) is a zero timer of the GUI     *)
(* thread whose timeout is connected to a slot of an object living in the  *)
(* worker thread (a queued call, as the comment at gui.py:486 intends).    *)
(* Signals of the worker are connected to methods of the main window and   *)
(* are delivered as queued events of the GUI thread.                       *)
(***************************************************************************)
EXTENDS Integers, Sequences, FiniteSets, TLC

VARIABLES
    program,        \* which entry point runs: "gui" (gui.py main), "menu" (main.py main),
                    \* or "api": the configuration functions of main.py called directly
    gui_pc,         \* position of the GUI thread: "startup", "loop", or blocked in a wait()
    env,            \* the four environment variables
    saved,          \* content of ~/.gcp-vm-manager/config.json
    config,         \* GCPVMManagerGUI.config
    vm_manager,     \* GCPVMManagerGUI.vm_manager
    worker,         \* GCPVMManagerGUI.worker
    worker_thread,  \* GCPVMManagerGUI.worker_thread
    refresh_timer,  \* refresh_timer.isActive()
    status_label,   \* status_label.text()
    refresh_btn,    \* refresh_btn.isEnabled()
    start_btn,      \* start_btn.isEnabled()
    stop_btn,       \* stop_btn.isEnabled()
    cancel_btn,     \* cancel_btn.isEnabled()
    progress_bar,   \* progress_bar.isVisible()
    timers,         \* pending QTimer.singleShot(0, worker slot), in creation order
    repolls,        \* number of pending QTimer.singleShot(2000, refresh_status)
    thread_run,     \* the worker OS thread: "none", "running", "quit_requested"
    threadQueue,    \* slot calls posted to the worker thread's event queue
    workerCall,     \* <<slot>> while the worker thread executes it (remote call outstanding)
    guiQueue,       \* worker signals queued for delivery in the GUI thread
    accepted,       \* history: the number of requests accepted so far; the n-th has id n
    lastDelivered,  \* history: the id of the request whose signal handler ran last
    m_pc,           \* position of main() of the text-menu program
    vm_status,      \* main(): vm_status
    menu,           \* the actions display_menu printed, in order
    choice,         \* main(): choice
    calls,          \* history: the manager calls main() made, in order
    call,           \* program "api": the last call of a configuration function:
                    \* its name, argument, I/O outcome and boolean return value
    prev_call       \* program "api": the call before that one

vars == <<program, gui_pc, env, saved, config, vm_manager, worker, worker_thread,
          refresh_timer, status_label, refresh_btn, start_btn, stop_btn, cancel_btn,
          progress_bar, timers, repolls, thread_run, threadQueue, workerCall,
          guiQueue, accepted, lastDelivered, m_pc, vm_status, menu, choice, calls,
          call, prev_call>>

cfgVars == <<env, saved, config>>
ctlVars == <<vm_manager, worker, worker_thread>>
uiVars == <<status_label, refresh_btn, start_btn, stop_btn, cancel_btn, progress_bar>>
pipeVars == <<timers, repolls, thread_run, threadQueue, workerCall, guiQueue>>
histVars == <<accepted, lastDelivered>>
menuVars == <<m_pc, vm_status, menu, choice, calls>>
fnVars == <<call, prev_call>>
guiVars == <<gui_pc, worker, worker_thread, refresh_timer, uiVars, pipeVars, histVars>>

None == "None"

\* Bound: the number of requests accepted in one run.
MaxRequests == 3

----------------------------------------------------------------------------
(* Configuration store (main.py)                                           *)

Fields == {"project_id", "zone", "instance_name", "service_key_path"}

\* A dict is a function on Fields; Absent marks a key the dict does not have.
Absent == "<absent>"
EmptyDict == [f \in Fields |-> Absent]

\* No configuration function has been called yet.
NoCall == [fn |-> None, arg |-> EmptyDict, io |-> "ok", ret |-> FALSE]

\* json.dump of a dict: the members of the JSON object, one per key the dict
\* has; json.load of that text: the dict with these keys.
json_dump(c) == {<<f, c[f]>> : f \in {g \in Fields : c[g] # Absent}}
json_load(text) ==
    [f \in Fields |-> IF \E m \in text : m[1] = f
                      THEN (CHOOSE m \in text : m[1] = f)[2]
                      ELSE Absent]

\* The persisted file: absent, unparsable or unreadable, or a JSON object.
NoFile == [state |-> "absent", data |-> {}]
Corrupt == [state |-> "corrupt", data |-> {}]
File(c) == [state |-> "json", data |-> json_dump(c)]

\* str.strip() on the strings the model uses.
strip(s) == IF s = " " THEN "" ELSE s

\* Python truthiness of config.get(field) / os.getenv(name).
Truthy(v) == v # Absent /\ v # ""

validate_config(c) == \A f \in Fields : Truthy(c[f])

\* Mutant of load_saved_config: the content of a file that cannot be parsed
\* reaches the caller.
load_saved_config_Uncaught ==
    IF saved.state = "absent" THEN EmptyDict ELSE [f \in Fields |-> "<garbage>"]

\* load_saved_config: json.load of the file when it exists; {} when it does
\* not exist or anything raises.
load_saved_config == IF saved.state = "json" THEN json_load(saved.data) ELSE EmptyDict

\* Mutant of EnvOverride: the persisted value wins over the environment.
EnvOverride_FileFirst(c) == [f \in Fields |-> IF Truthy(c[f]) THEN c[f] ELSE env[f]]

\* The environment overrides of load_initial_config / load_config.
EnvOverride(c) == [f \in Fields |-> IF Truthy(env[f]) THEN env[f] ELSE c[f]]

\* Mutant of get_config: the texts are not stripped.
get_config_NoStrip(texts) == texts

\* ConfigDialog.get_config: the four line edits, stripped.
get_config(texts) == [f \in Fields |-> strip(texts[f])]

\* Mutant of save_config_file: the file is opened for appending, so that a
\* file that exists keeps its old content in front of the new.
save_config_file_Append(c, io) ==
    CASE io = "ok" -> IF saved.state = "absent" THEN File(c) ELSE Corrupt
      [] io = "open_failed" -> saved
      [] io = "write_failed" -> Corrupt

\* save_config: io is the outcome of open(config_file, 'w') / json.dump.
save_config_file(c, io) ==
    CASE io = "ok" -> File(c)
      [] io = "open_failed" -> saved
      [] io = "write_failed" -> Corrupt

save_config_result(io) == io = "ok"

\* clear_saved_config: unlink when the file exists.  io is the outcome of
\* get_config_file_path() and unlink().
clear_saved_config_file(io) == IF io = "ok" THEN NoFile ELSE saved

\* Mutant of clear_saved_config_result: unlink without the exists() test, so
\* that a missing file makes unlink raise.
clear_saved_config_result_NoExistsTest(io) == io = "ok" /\ saved.state # "absent"

\* unlink is not called for a missing file, and then cannot fail.
clear_saved_config_result(io) ==
    io = "ok" \/ (io = "unlink_failed" /\ saved.state = "absent")

CfgA == [f \in Fields |-> "a"]
CfgBlank == [CfgA EXCEPT !["zone"] = " "]
PartialFile == [CfgA EXCEPT !["instance_name"] = Absent]
NoEnv == EmptyDict
EnvInstance == [EmptyDict EXCEPT !["instance_name"] = "e"]
EnvBlankZone == [EmptyDict EXCEPT !["zone"] = " "]

DialogTexts == {CfgA, CfgBlank}
SavedFiles == {NoFile, File(CfgA), File(PartialFile)}
Envs == {NoEnv, EnvInstance}
SaveOutcomes == {"ok", "open_failed", "write_failed"}
ClearOutcomes == {"ok", "unlink_failed", "path_failed"}

----------------------------------------------------------------------------
(* GCPVMManager (main.py)                                                  *)

\* What the key file and the client construction can do to authenticate().
AuthOutcomes == {"ok", "file_not_found", "invalid_credential", "client_error"}

authenticate(outcome) == outcome = "ok"

\* A GCPVMManager whose compute_client is still None (main.py:38).
Unauthenticated == "GCPVMManager without client"

\* What the compute API can answer to a get / start / stop request.
Raises == "<exception>"
RemoteStatuses == {"RUNNING", "TERMINATED", "STAGING"}
GetResponses == RemoteStatuses \cup {Raises}
OpResponses == {"operation", Raises}

get_instance_status(resp) == IF resp = Raises THEN None ELSE resp
start_instance(resp) == resp # Raises
stop_instance(resp) == resp # Raises

----------------------------------------------------------------------------
(* VMWorker (gui.py): the signal each slot emits for a response            *)

VMWorker_get_status(resp) ==
    LET status == get_instance_status(resp)
    IN  IF status # None /\ status # ""
        THEN [sig |-> "status_updated", status |-> status]
        ELSE [sig |-> "error_occurred", message |-> "Failed to get VM status"]

VMWorker_start_vm(resp) ==
    IF start_instance(resp)
    THEN [sig |-> "operation_completed", success |-> TRUE]
    ELSE [sig |-> "operation_completed", success |-> FALSE]

VMWorker_stop_vm(resp) ==
    IF stop_instance(resp)
    THEN [sig |-> "operation_completed", success |-> TRUE]
    ELSE [sig |-> "operation_completed", success |-> FALSE]

Responses(slot) == IF slot = "get_status" THEN GetResponses ELSE OpResponses

Emitted(slot, resp) ==
    CASE slot = "get_status" -> VMWorker_get_status(resp)
      [] slot = "start_vm" -> VMWorker_start_vm(resp)
      [] slot = "stop_vm" -> VMWorker_stop_vm(resp)

----------------------------------------------------------------------------
(* History                                                                 *)

SeqReqs(q) == {q[i].req : i \in 1..Len(q)}

\* Requests somewhere between acceptance and the run of their signal handler.
InPipeline ==
    SeqReqs(timers)
    \cup SeqReqs(threadQueue)
    \cup SeqReqs(workerCall)
    \cup SeqReqs(guiQueue)

\* cancel_operations reached these requests before their handler ran.
MarkCancelled(q) == [i \in 1..Len(q) |-> [q[i] EXCEPT !.cancelled = TRUE]]

----------------------------------------------------------------------------
(* GCPVMManagerGUI (gui.py): helpers shared by the handlers                *)

GuiReady == program = "gui" /\ gui_pc = "loop"

\* QThread.quit(): the worker's event loop is told to exit.  The zero timers
\* still pending target a slot of a worker whose thread will not run again:
\* when they fire nothing happens, so they are dropped here.
QuitWorkerThread ==
    /\ thread_run' = IF thread_run = "none" THEN "none" ELSE "quit_requested"
    /\ timers' = <<>>

\* QTimer.singleShot(0, self.worker.<slot>)
singleShot(slot) ==
    timers' = Append(timers, [slot |-> slot, req |-> accepted + 1, cancelled |-> FALSE])

\* Mutant of StartEnabledFor: the RUNNING branch leaves Start enabled.
StartEnabledFor_Always(status) == TRUE

\* update_status: the Start/Stop buttons for a reported status (gui.py:496-507).
StartEnabledFor(status) == status # "RUNNING"

\* Mutant of StopEnabledFor: the TERMINATED branch leaves Stop enabled.
StopEnabledFor_Always(status) == TRUE

StopEnabledFor(status) == status # "TERMINATED"

\* refresh_status: reached from the Refresh button, the auto-refresh timer and
\* the delayed re-poll.  Constrains uiVars, timers and accepted.
refresh_status ==
    IF worker = None \/ vm_manager = None
    THEN UNCHANGED <<uiVars, timers, accepted>>
    ELSE /\ progress_bar' = TRUE
         /\ cancel_btn' = TRUE
         /\ refresh_btn' = FALSE
         /\ singleShot("get_status")
         /\ accepted' = accepted + 1
         /\ UNCHANGED <<status_label, start_btn, stop_btn>>

\* start_vm / stop_vm, which differ in the slot only.
start_stop_vm(slot) ==
    IF worker = None
    THEN UNCHANGED <<uiVars, timers, accepted>>
    ELSE /\ progress_bar' = TRUE
         /\ cancel_btn' = TRUE
         /\ start_btn' = FALSE
         /\ stop_btn' = FALSE
         /\ singleShot(slot)
         /\ accepted' = accepted + 1
         /\ UNCHANGED <<status_label, refresh_btn>>

----------------------------------------------------------------------------
(* User and timer triggers                                                 *)

RefreshClick ==
    /\ GuiReady /\ refresh_btn /\ accepted < MaxRequests
    /\ refresh_status
    /\ UNCHANGED <<fnVars, menuVars, program, gui_pc, cfgVars, ctlVars, refresh_timer, repolls,
                   thread_run, threadQueue, workerCall, guiQueue, lastDelivered>>

\* Qt activates the timers of a thread in expiry order: the 30 s timer and the
\* 2 s re-poll fire after the zero timers created before they expire.
RefreshTimerTick ==
    /\ GuiReady /\ refresh_timer /\ timers = <<>> /\ accepted < MaxRequests
    /\ refresh_status
    /\ UNCHANGED <<fnVars, menuVars, program, gui_pc, cfgVars, ctlVars, refresh_timer, repolls,
                   thread_run, threadQueue, workerCall, guiQueue, lastDelivered>>

DelayedRepoll ==
    /\ GuiReady /\ repolls > 0 /\ timers = <<>> /\ accepted < MaxRequests
    /\ repolls' = repolls - 1
    /\ refresh_status
    /\ UNCHANGED <<fnVars, menuVars, program, gui_pc, cfgVars, ctlVars, refresh_timer,
                   thread_run, threadQueue, workerCall, guiQueue, lastDelivered>>

StartClick ==
    /\ GuiReady /\ start_btn /\ accepted < MaxRequests
    /\ start_stop_vm("start_vm")
    /\ UNCHANGED <<fnVars, menuVars, program, gui_pc, cfgVars, ctlVars, refresh_timer, repolls,
                   thread_run, threadQueue, workerCall, guiQueue, lastDelivered>>

StopClick ==
    /\ GuiReady /\ stop_btn /\ accepted < MaxRequests
    /\ start_stop_vm("stop_vm")
    /\ UNCHANGED <<fnVars, menuVars, program, gui_pc, cfgVars, ctlVars, refresh_timer, repolls,
                   thread_run, threadQueue, workerCall, guiQueue, lastDelivered>>

\* toggle_auto_refresh
ToggleAutoRefresh ==
    /\ GuiReady
    /\ refresh_timer' = ~refresh_timer
    /\ UNCHANGED <<fnVars, menuVars, program, gui_pc, cfgVars, ctlVars, uiVars, pipeVars, histVars>>

----------------------------------------------------------------------------
(* The pipeline: GUI zero timer -> worker thread -> GUI queued signal      *)

\* A zero timer of the GUI thread fires: the slot call is posted to the worker
\* thread.
TimerFire ==
    /\ GuiReady /\ timers # <<>>
    /\ timers' = Tail(timers)
    /\ threadQueue' = Append(threadQueue, Head(timers))
    /\ UNCHANGED <<fnVars, menuVars, program, gui_pc, cfgVars, ctlVars, refresh_timer, uiVars, repolls,
                   thread_run, workerCall, guiQueue, histVars>>

\* Mutant of WorkerBegin: the slot call posted last is run first.
WorkerBegin_TakesLast ==
    /\ program = "gui"
    /\ thread_run # "none" /\ workerCall = <<>> /\ threadQueue # <<>>
    /\ workerCall' = <<threadQueue[Len(threadQueue)]>>
    /\ threadQueue' = SubSeq(threadQueue, 1, Len(threadQueue) - 1)
    /\ UNCHANGED <<fnVars, menuVars, gui_pc, program, cfgVars, ctlVars, refresh_timer, uiVars,
                   timers, repolls, thread_run, guiQueue, histVars>>

\* The worker thread takes the next posted slot call and enters the remote call.
\* After quit() the loop may still deliver calls posted before it looks at the
\* exit flag.
WorkerBegin ==
    /\ program = "gui"
    /\ thread_run # "none" /\ workerCall = <<>> /\ threadQueue # <<>>
    /\ workerCall' = <<Head(threadQueue)>>
    /\ threadQueue' = Tail(threadQueue)
    /\ UNCHANGED <<fnVars, menuVars, gui_pc, program, cfgVars, ctlVars, refresh_timer, uiVars, timers,
                   repolls, thread_run, guiQueue, histVars>>

\* The remote call returns and the slot emits its signal, queued to the GUI thread.
WorkerReturn ==
    /\ program = "gui"
    /\ workerCall # <<>>
    /\ \E resp \in Responses(workerCall[1].slot) :
         guiQueue' = Append(guiQueue,
                            [ev |-> Emitted(workerCall[1].slot, resp),
                             req |-> workerCall[1].req,
                             cancelled |-> workerCall[1].cancelled])
    /\ workerCall' = <<>>
    /\ UNCHANGED <<fnVars, menuVars, gui_pc, program, cfgVars, ctlVars, refresh_timer, uiVars, timers,
                   repolls, thread_run, threadQueue, histVars>>

\* The worker's event loop sees the exit flag and the thread finishes; slot
\* calls still posted to it are never run.
WorkerExit ==
    /\ program = "gui"
    /\ thread_run = "quit_requested" /\ workerCall = <<>>
    /\ thread_run' = "none"
    /\ threadQueue' = <<>>
    /\ UNCHANGED <<fnVars, menuVars, gui_pc, program, cfgVars, ctlVars, refresh_timer, uiVars, timers,
                   repolls, workerCall, guiQueue, histVars>>

----------------------------------------------------------------------------
(* Signal handlers of the main window                                      *)

\* update_status(status); constrains uiVars.
update_status(status) ==
    /\ status_label' = status
    /\ progress_bar' = FALSE
    /\ cancel_btn' = FALSE
    /\ refresh_btn' = TRUE
    /\ start_btn' = StartEnabledFor(status)
    /\ stop_btn' = StopEnabledFor(status)

\* Mutant of operation_completed: the re-poll is scheduled for a failure too.
operation_completed_RepollsAlways(success) ==
    /\ progress_bar' = FALSE
    /\ cancel_btn' = FALSE
    /\ repolls' = IF vm_manager # None /\ worker # None THEN repolls + 1 ELSE repolls
    /\ IF success
       THEN UNCHANGED <<status_label, refresh_btn, start_btn, stop_btn>>
       ELSE /\ start_btn' = TRUE
            /\ stop_btn' = TRUE
            /\ refresh_btn' = TRUE
            /\ UNCHANGED status_label

\* Mutant of operation_completed: the re-poll is scheduled without looking at
\* vm_manager and worker.
operation_completed_UnguardedRepoll(success) ==
    /\ progress_bar' = FALSE
    /\ cancel_btn' = FALSE
    /\ IF success
       THEN /\ repolls' = repolls + 1
            /\ UNCHANGED <<status_label, refresh_btn, start_btn, stop_btn>>
       ELSE /\ start_btn' = TRUE
            /\ stop_btn' = TRUE
            /\ refresh_btn' = TRUE
            /\ UNCHANGED <<status_label, repolls>>

\* operation_completed(success, message); constrains uiVars and repolls.
operation_completed(success) ==
    /\ progress_bar' = FALSE
    /\ cancel_btn' = FALSE
    /\ IF success
       THEN /\ repolls' = IF vm_manager # None /\ worker # None
                          THEN repolls + 1 ELSE repolls
            /\ UNCHANGED <<status_label, refresh_btn, start_btn, stop_btn>>
       ELSE /\ start_btn' = TRUE
            /\ stop_btn' = TRUE
            /\ refresh_btn' = TRUE
            /\ UNCHANGED <<status_label, repolls>>

\* handle_error(error_message); constrains uiVars.  The messages the worker
\* emits contain neither "authentication" nor "connection": no dialog.
handle_error(message) ==
    /\ progress_bar' = FALSE
    /\ cancel_btn' = FALSE
    /\ refresh_btn' = TRUE
    /\ start_btn' = FALSE
    /\ stop_btn' = FALSE
    /\ status_label' = "Error"

HeadSignal == Head(guiQueue).ev

DeliverStatusUpdated ==
    /\ GuiReady /\ guiQueue # <<>> /\ HeadSignal.sig = "status_updated"
    /\ update_status(HeadSignal.status)
    /\ guiQueue' = Tail(guiQueue)
    /\ lastDelivered' = Head(guiQueue).req
    /\ UNCHANGED <<fnVars, menuVars, program, gui_pc, cfgVars, ctlVars, refresh_timer, timers, repolls,
                   thread_run, threadQueue, workerCall, accepted>>

DeliverOperationCompleted ==
    /\ GuiReady /\ guiQueue # <<>> /\ HeadSignal.sig = "operation_completed"
    /\ operation_completed(HeadSignal.success)
    /\ guiQueue' = Tail(guiQueue)
    /\ lastDelivered' = Head(guiQueue).req
    /\ UNCHANGED <<fnVars, menuVars, program, gui_pc, cfgVars, ctlVars, refresh_timer, timers,
                   thread_run, threadQueue, workerCall, accepted>>

DeliverErrorOccurred ==
    /\ GuiReady /\ guiQueue # <<>> /\ HeadSignal.sig = "error_occurred"
    /\ handle_error(HeadSignal.message)
    /\ guiQueue' = Tail(guiQueue)
    /\ lastDelivered' = Head(guiQueue).req
    /\ UNCHANGED <<fnVars, menuVars, program, gui_pc, cfgVars, ctlVars, refresh_timer, timers, repolls,
                   thread_run, threadQueue, workerCall, accepted>>

----------------------------------------------------------------------------
(* cancel_operations                                                       *)

\* Up to worker_thread.wait(): the auto-refresh timer is stopped and the worker
\* thread is told to quit.  The requests in the pipeline are the ones cancelled.
CancelBegin ==
    /\ GuiReady /\ cancel_btn
    /\ refresh_timer' = FALSE
    /\ QuitWorkerThread
    /\ gui_pc' = "cancel_wait"
    /\ threadQueue' = MarkCancelled(threadQueue)
    /\ workerCall' = MarkCancelled(workerCall)
    /\ guiQueue' = MarkCancelled(guiQueue)
    /\ UNCHANGED <<fnVars, menuVars, program, cfgVars, ctlVars, uiVars, repolls, histVars>>

\* wait() returns once the worker thread has finished; the rest of the handler.
CancelEnd ==
    /\ program = "gui" /\ gui_pc = "cancel_wait" /\ thread_run = "none"
    /\ IF worker_thread # None
       THEN worker_thread' = None /\ worker' = None
       ELSE UNCHANGED <<worker_thread, worker>>
    /\ progress_bar' = FALSE
    /\ cancel_btn' = FALSE
    /\ refresh_btn' = TRUE
    /\ start_btn' = FALSE
    /\ stop_btn' = FALSE
    /\ status_label' = "Cancelled"
    /\ gui_pc' = "loop"
    /\ UNCHANGED <<fnVars, menuVars, program, cfgVars, vm_manager, refresh_timer, pipeVars, histVars>>

----------------------------------------------------------------------------
(* reset_config                                                            *)

\* The user answers No, or clear_saved_config() fails: nothing but a log line.
ResetDeclinedOrFailed ==
    /\ GuiReady
    /\ \E reply \in {"Yes", "No"}, io \in ClearOutcomes :
         /\ reply = "No" \/ ~clear_saved_config_result(io)
         /\ saved' = IF reply = "Yes" THEN clear_saved_config_file(io) ELSE saved
    /\ UNCHANGED <<fnVars, menuVars, program, gui_pc, env, config, ctlVars, refresh_timer, uiVars,
                   pipeVars, histVars>>

\* The user answers Yes and the file is cleared; up to worker_thread.wait().
\* The question box runs the event loop, so that the zero timers pending when
\* it opened have fired before it can be answered.
ResetBegin ==
    /\ GuiReady /\ timers = <<>>
    /\ \E io \in ClearOutcomes :
         /\ clear_saved_config_result(io)
         /\ saved' = clear_saved_config_file(io)
    /\ config' = EmptyDict
    /\ vm_manager' = None
    /\ worker' = None
    /\ IF worker_thread # None
       THEN QuitWorkerThread
       ELSE UNCHANGED <<thread_run, timers>>
    /\ gui_pc' = "reset_wait"
    /\ UNCHANGED <<fnVars, menuVars, program, env, worker_thread, refresh_timer, uiVars, repolls,
                   threadQueue, workerCall, guiQueue, histVars>>

ResetEnd ==
    /\ program = "gui" /\ gui_pc = "reset_wait"
    /\ worker_thread # None => thread_run = "none"
    /\ worker_thread' = None
    /\ status_label' = "Unknown"
    /\ start_btn' = FALSE
    /\ stop_btn' = FALSE
    /\ gui_pc' = "loop"
    /\ UNCHANGED <<fnVars, menuVars, program, cfgVars, vm_manager, worker, refresh_timer, refresh_btn,
                   cancel_btn, progress_bar, pipeVars, histVars>>

----------------------------------------------------------------------------
(* Configuration dialog and initialize_vm_manager                          *)

\* setup_worker, called with no worker thread left: a fresh thread and worker.
setup_worker ==
    /\ worker_thread' = "QThread"
    /\ worker' = "VMWorker"
    /\ thread_run' = "running"
    /\ threadQueue' = <<>>

\* Mutant of initialize_vm_manager: the failure branch leaves the manager it
\* built in place.
initialize_vm_manager_KeepsManager(auth) ==
    IF authenticate(auth)
    THEN /\ vm_manager' = "GCPVMManager"
         /\ setup_worker
    ELSE /\ vm_manager' = Unauthenticated
         /\ worker_thread' = None
         /\ worker' = IF worker_thread # None THEN None ELSE worker
         /\ UNCHANGED <<thread_run, threadQueue>>

\* initialize_vm_manager once no worker thread is left; constrains vm_manager,
\* worker, worker_thread, thread_run and threadQueue.
initialize_vm_manager(auth) ==
    IF authenticate(auth)
    THEN /\ vm_manager' = "GCPVMManager"
         /\ setup_worker
    ELSE /\ vm_manager' = None
         /\ worker_thread' = None
         /\ worker' = IF worker_thread # None THEN None ELSE worker
         /\ UNCHANGED <<thread_run, threadQueue>>

\* ConfigDialog.save_and_accept ends in a warning (invalid fields, or the save
\* failed), or the dialog is cancelled: show_config_dialog changes nothing.
ConfigDialogRejected ==
    /\ GuiReady
    /\ \E texts \in DialogTexts, io \in SaveOutcomes :
         LET c == get_config(texts)
         IN  /\ ~(validate_config(c) /\ save_config_result(io))
             /\ saved' = IF validate_config(c) THEN save_config_file(c, io) ELSE saved
    /\ UNCHANGED <<fnVars, menuVars, program, gui_pc, env, config, ctlVars, refresh_timer, uiVars,
                   pipeVars, histVars>>

\* The dialog is accepted (its event loop has fired the zero timers pending
\* when it opened): show_config_dialog stores the new configuration and
\* calls initialize_vm_manager, here up to worker_thread.wait().
ConfigureAccept ==
    /\ GuiReady /\ timers = <<>>
    /\ \E texts \in DialogTexts :
         LET c == get_config(texts)
         IN  /\ validate_config(c) /\ save_config_result("ok")
             /\ saved' = save_config_file(c, "ok")
             /\ config' = c
    /\ IF worker_thread # None
       THEN QuitWorkerThread
       ELSE UNCHANGED <<thread_run, timers>>
    /\ gui_pc' = "init_wait"
    /\ UNCHANGED <<fnVars, menuVars, program, env, ctlVars, refresh_timer, uiVars, repolls, threadQueue,
                   workerCall, guiQueue, histVars>>

\* wait() has returned: the manager is built and authenticated.
InitializeFinish ==
    /\ program = "gui" /\ gui_pc = "init_wait" /\ thread_run = "none"
    /\ \E auth \in AuthOutcomes : initialize_vm_manager(auth)
    /\ gui_pc' = "loop"
    /\ UNCHANGED <<fnVars, menuVars, program, cfgVars, refresh_timer, uiVars, timers, repolls,
                   workerCall, guiQueue, histVars>>

\* load_initial_config, the last step of GCPVMManagerGUI.__init__.
LoadInitialConfig ==
    /\ program = "gui" /\ gui_pc = "startup"
    /\ config' = EnvOverride(load_saved_config)
    /\ IF validate_config(config')
       THEN \E auth \in AuthOutcomes : initialize_vm_manager(auth)
       ELSE UNCHANGED <<vm_manager, worker, worker_thread, thread_run, threadQueue>>
    /\ gui_pc' = "loop"
    /\ UNCHANGED <<fnVars, menuVars, program, env, saved, refresh_timer, uiVars, timers, repolls,
                   workerCall, guiQueue, histVars>>

----------------------------------------------------------------------------
(* The text-menu program (main.py)                                         *)

\* display_menu: the actions printed for a status, in order.
display_menu(status) ==
    CASE status = "RUNNING" -> <<"stop", "nothing">>
      [] status = "TERMINATED" -> <<"start", "nothing">>
      [] OTHER -> <<"start", "stop", "nothing">>

\* Mutant of get_user_choice: the numbering of the three-entry menu is used
\* for every status.
get_user_choice_IgnoresStatus(status, line) ==
    CASE strip(line) = "1" -> "start"
      [] strip(line) = "2" -> "stop"
      [] strip(line) = "3" -> "nothing"
      [] OTHER -> "invalid"

\* get_user_choice: one pass of the loop for one line of input; "invalid"
\* stands for the branch that prints the error and asks again.
get_user_choice(status, line) ==
    IF status \in {"RUNNING", "TERMINATED"}
    THEN CASE strip(line) = "1" -> IF status = "RUNNING" THEN "stop" ELSE "start"
           [] strip(line) = "2" -> "nothing"
           [] OTHER -> "invalid"
    ELSE CASE strip(line) = "1" -> "start"
           [] strip(line) = "2" -> "stop"
           [] strip(line) = "3" -> "nothing"
           [] OTHER -> "invalid"

MenuLines == {"1", "2", "3", "4", " "}
PromptLines == {"a", " "}

\* load_config: saved file, environment overrides, then a prompt per field
\* that is still missing.
load_config(lines) ==
    LET c == EnvOverride(load_saved_config)
    IN  [f \in Fields |-> IF Truthy(c[f]) THEN c[f] ELSE strip(lines[f])]

MenuLoadConfig ==
    /\ program = "menu" /\ m_pc = "load_config"
    /\ \E lines \in [Fields -> PromptLines] : config' = load_config(lines)
    /\ m_pc' = "validate_config"
    /\ UNCHANGED <<fnVars, program, env, saved, vm_manager, guiVars, vm_status, menu, choice, calls>>

\* Mutant of MenuValidate: main() goes on whatever validate_config returns.
MenuValidate_Ignored ==
    /\ program = "menu" /\ m_pc = "validate_config"
    /\ m_pc' = "authenticate"
    /\ UNCHANGED <<fnVars, program, cfgVars, vm_manager, guiVars, vm_status, menu, choice, calls>>

MenuValidate ==
    /\ program = "menu" /\ m_pc = "validate_config"
    /\ m_pc' = IF validate_config(config) THEN "authenticate" ELSE "exit_1"
    /\ UNCHANGED <<fnVars, program, cfgVars, vm_manager, guiVars, vm_status, menu, choice, calls>>

MenuAuthenticate ==
    /\ program = "menu" /\ m_pc = "authenticate"
    /\ calls' = Append(calls, "authenticate")
    /\ \E auth \in AuthOutcomes :
         IF authenticate(auth)
         THEN vm_manager' = "GCPVMManager" /\ m_pc' = "get_instance_status"
         ELSE vm_manager' = Unauthenticated /\ m_pc' = "exit_1"
    /\ UNCHANGED <<fnVars, program, cfgVars, guiVars, vm_status, menu, choice>>

MenuGetStatus ==
    /\ program = "menu" /\ m_pc = "get_instance_status"
    /\ calls' = Append(calls, "get_instance_status")
    /\ \E resp \in GetResponses :
         /\ vm_status' = get_instance_status(resp)
         /\ m_pc' = IF vm_status' = None THEN "exit_1" ELSE "display_menu"
    /\ UNCHANGED <<fnVars, program, cfgVars, vm_manager, guiVars, menu, choice>>

MenuDisplay ==
    /\ program = "menu" /\ m_pc = "display_menu"
    /\ menu' = display_menu(vm_status)
    /\ m_pc' = "get_user_choice"
    /\ UNCHANGED <<fnVars, program, cfgVars, vm_manager, guiVars, vm_status, choice, calls>>

\* One line typed at the prompt; an invalid line asks again.
MenuChoice ==
    /\ program = "menu" /\ m_pc = "get_user_choice"
    /\ \E line \in MenuLines :
         LET c == get_user_choice(vm_status, line)
         IN  IF c = "invalid"
             THEN UNCHANGED <<choice, m_pc>>
             ELSE choice' = c /\ m_pc' = "execute"
    /\ UNCHANGED <<fnVars, program, cfgVars, vm_manager, guiVars, vm_status, menu, calls>>

\* Ctrl-C at the prompt: sys.exit(0).
MenuInterrupt ==
    /\ program = "menu" /\ m_pc = "get_user_choice"
    /\ m_pc' = "exit_0"
    /\ UNCHANGED <<fnVars, program, cfgVars, vm_manager, guiVars, vm_status, menu, choice, calls>>

MenuExecute ==
    /\ program = "menu" /\ m_pc = "execute"
    /\ calls' = CASE choice = "start" -> Append(calls, "start_instance")
                  [] choice = "stop" -> Append(calls, "stop_instance")
                  [] OTHER -> calls
    /\ m_pc' = "done"
    /\ UNCHANGED <<fnVars, program, cfgVars, vm_manager, guiVars, vm_status, menu, choice>>

----------------------------------------------------------------------------
(* Specification                                                           *)

\* The GUI program: GCPVMManagerGUI.__init__ up to load_initial_config
\* (gui.py:184-195, 252-298).  The text-menu program: the entry of main().
Init ==
    /\ program \in {"gui", "menu"}
    /\ gui_pc = "startup"
    /\ env \in Envs
    /\ saved \in SavedFiles
    /\ config = EmptyDict
    /\ vm_manager = None
    /\ worker = None
    /\ worker_thread = None
    /\ refresh_timer = FALSE
    /\ status_label = "Unknown"
    /\ refresh_btn = TRUE
    /\ start_btn = FALSE
    /\ stop_btn = FALSE
    /\ cancel_btn = FALSE
    /\ progress_bar = FALSE
    /\ timers = <<>>
    /\ repolls = 0
    /\ thread_run = "none"
    /\ threadQueue = <<>>
    /\ workerCall = <<>>
    /\ guiQueue = <<>>
    /\ accepted = 0
    /\ lastDelivered = 0
    /\ m_pc = "load_config"
    /\ vm_status = None
    /\ menu = <<>>
    /\ choice = None
    /\ calls = <<>>
    /\ call = NoCall
    /\ prev_call = [fn |-> None, arg |-> EmptyDict, ret |-> FALSE]

Next ==
    \/ LoadInitialConfig
    \/ ConfigDialogRejected
    \/ ConfigureAccept
    \/ InitializeFinish
    \/ ResetDeclinedOrFailed
    \/ ResetBegin
    \/ ResetEnd
    \/ RefreshClick
    \/ RefreshTimerTick
    \/ DelayedRepoll
    \/ StartClick
    \/ StopClick
    \/ ToggleAutoRefresh
    \/ TimerFire
    \/ WorkerBegin
    \/ WorkerReturn
    \/ WorkerExit
    \/ DeliverStatusUpdated
    \/ DeliverOperationCompleted
    \/ DeliverErrorOccurred
    \/ CancelBegin
    \/ CancelEnd
    \/ MenuLoadConfig
    \/ MenuValidate
    \/ MenuAuthenticate
    \/ MenuGetStatus
    \/ MenuDisplay
    \/ MenuChoice
    \/ MenuInterrupt
    \/ MenuExecute

Spec == Init /\ [][Next]_vars

----------------------------------------------------------------------------
(* The configuration functions of main.py, called directly                 *)

CfgB == [f \in Fields |-> "b"]
CfgEmptyField == [CfgA EXCEPT !["project_id"] = ""]
EnvEmptyZone == [EmptyDict EXCEPT !["zone"] = ""]

\* Dicts a caller can pass, files a user can leave on disk, environments.
ApiConfigs == {CfgA, CfgB, CfgBlank, CfgEmptyField, PartialFile}
ApiTexts == {CfgA, CfgB, CfgBlank, CfgEmptyField}
ApiFiles == {NoFile, Corrupt} \cup {File(c) : c \in ApiConfigs}
ApiEnvs == {NoEnv, EnvInstance, EnvBlankZone, EnvEmptyZone}

\* The record of a call; functions without a dict argument get EmptyDict.
Called(name, arg, io, ret) == [fn |-> name, arg |-> arg, io |-> io, ret |-> ret]

\* validate_config(config)
CallValidateConfig ==
    /\ program = "api"
    /\ \E c \in ApiConfigs :
         call' = Called("validate_config", c, "ok", validate_config(c))
    /\ prev_call' = [fn |-> call.fn, arg |-> call.arg, ret |-> call.ret]
    /\ UNCHANGED <<program, cfgVars, vm_manager, guiVars, menuVars>>

\* save_config(config)
CallSaveConfig ==
    /\ program = "api"
    /\ \E c \in ApiConfigs, io \in SaveOutcomes :
         /\ saved' = save_config_file(c, io)
         /\ call' = Called("save_config", c, io, save_config_result(io))
    /\ prev_call' = [fn |-> call.fn, arg |-> call.arg, ret |-> call.ret]
    /\ UNCHANGED <<program, env, config, vm_manager, guiVars, menuVars>>

\* ConfigDialog.save_and_accept with the texts of the four line edits; the
\* return value stands for self.accept().
CallSaveAndAccept ==
    /\ program = "api"
    /\ \E texts \in ApiTexts, io \in SaveOutcomes :
         LET c == get_config(texts)
         IN  IF validate_config(c)
             THEN /\ saved' = save_config_file(c, io)
                  /\ call' = Called("save_and_accept", texts, io, save_config_result(io))
             ELSE /\ saved' = saved
                  /\ call' = Called("save_and_accept", texts, "ok", FALSE)
    /\ prev_call' = [fn |-> call.fn, arg |-> call.arg, ret |-> call.ret]
    /\ UNCHANGED <<program, env, config, vm_manager, guiVars, menuVars>>

\* clear_saved_config()
CallClearSavedConfig ==
    /\ program = "api"
    /\ \E io \in ClearOutcomes :
         /\ saved' = clear_saved_config_file(io)
         /\ call' = Called("clear_saved_config", EmptyDict, io, clear_saved_config_result(io))
    /\ prev_call' = [fn |-> call.fn, arg |-> call.arg, ret |-> call.ret]
    /\ UNCHANGED <<program, env, config, vm_manager, guiVars, menuVars>>

\* config = load_saved_config(); the return value stands for "returned".
CallLoadSavedConfig ==
    /\ program = "api"
    /\ config' = load_saved_config
    /\ call' = Called("load_saved_config", EmptyDict, "ok", TRUE)
    /\ prev_call' = [fn |-> call.fn, arg |-> call.arg, ret |-> call.ret]
    /\ UNCHANGED <<program, env, saved, vm_manager, guiVars, menuVars>>

\* The load of load_initial_config (gui.py:324-337) and of load_config
\* (main.py:219-231): the saved file, then the environment, then validation.
\* The argument recorded is what load_saved_config returned.
CallLoadWithEnvironment ==
    /\ program = "api"
    /\ config' = EnvOverride(load_saved_config)
    /\ call' = Called("load_with_environment", load_saved_config, "ok",
                      validate_config(config'))
    /\ prev_call' = [fn |-> call.fn, arg |-> call.arg, ret |-> call.ret]
    /\ UNCHANGED <<program, env, saved, vm_manager, guiVars, menuVars>>

\* Everything but the program, the environment and the saved file, as
\* GCPVMManagerGUI.__init__ and the entry of main() leave it.
InitialProgramState ==
    /\ gui_pc = "startup"
    /\ config = EmptyDict
    /\ vm_manager = None
    /\ worker = None
    /\ worker_thread = None
    /\ refresh_timer = FALSE
    /\ status_label = "Unknown"
    /\ refresh_btn = TRUE
    /\ start_btn = FALSE
    /\ stop_btn = FALSE
    /\ cancel_btn = FALSE
    /\ progress_bar = FALSE
    /\ timers = <<>>
    /\ repolls = 0
    /\ thread_run = "none"
    /\ threadQueue = <<>>
    /\ workerCall = <<>>
    /\ guiQueue = <<>>
    /\ accepted = 0
    /\ lastDelivered = 0
    /\ m_pc = "load_config"
    /\ vm_status = None
    /\ menu = <<>>
    /\ choice = None
    /\ calls = <<>>
    /\ call = NoCall
    /\ prev_call = [fn |-> None, arg |-> EmptyDict, ret |-> FALSE]

ConfigInit ==
    /\ program = "api"
    /\ env \in ApiEnvs
    /\ saved \in ApiFiles
    /\ InitialProgramState

ConfigNext ==
    \/ CallValidateConfig
    \/ CallSaveConfig
    \/ CallSaveAndAccept
    \/ CallClearSavedConfig
    \/ CallLoadSavedConfig
    \/ CallLoadWithEnvironment

ConfigSpec == ConfigInit /\ [][ConfigNext]_vars

\* The two programs started with a complete saved file and with GCP_ZONE set
\* to a blank string.
BlankEnvInit ==
    /\ program \in {"gui", "menu"}
    /\ env = EnvBlankZone
    /\ saved = File(CfgA)
    /\ InitialProgramState

BlankEnvSpec == BlankEnvInit /\ [][Next]_vars

----------------------------------------------------------------------------
(* Vocabulary of the properties                                            *)

\* The step runs the handler of the signal at the head of the GUI queue.
HandlerRuns ==
    /\ guiQueue # <<>>
    /\ guiQueue' = Tail(guiQueue)
    /\ lastDelivered' = Head(guiQueue).req

\* refresh_status dispatches (gui.py:479 does not return early).
RefreshDispatches == worker # None /\ vm_manager # None

\* The GUI thread sits in QThread.wait().
GuiBlocked == program = "gui" /\ gui_pc \in {"cancel_wait", "reset_wait", "init_wait"}

\* The action sets of the specification's ActionPolicy.
LegalActions(status) ==
    CASE status = "RUNNING" -> {"stop", "nothing"}
      [] status = "TERMINATED" -> {"start", "nothing"}
      [] OTHER -> {"start", "stop", "nothing"}

\* What the main window offers: the enabled buttons, and doing nothing.
GuiOffered ==
    (IF start_btn THEN {"start"} ELSE {})
    \cup (IF stop_btn THEN {"stop"} ELSE {})
    \cup {"nothing"}

\* What the text menu offers: the printed actions, and the actions its prompt
\* can return.
MenuPrinted == {menu[i] : i \in 1..Len(menu)}
MenuSelectable(status) ==
    {get_user_choice(status, line) : line \in MenuLines} \ {"invalid"}

----------------------------------------------------------------------------
(* Properties                                                              *)

\* C1: single-flight.  In every reachable state at most one request (status,
\* start or stop) has been accepted and has not yet had its handler run.
C1_SingleFlight == Cardinality(InPipeline) <= 1

\* C2: a request made while another one is in flight is rejected: no step
\* accepts (dispatches) a request while the pipeline holds one.
C2_BusyRejected == [][InPipeline # {} => accepted' = accepted]_vars

\* C3: when cancel_operations returns with a manager in place, a Refresh is
\* accepted and dispatched as a status query.
C3_CancelReturnsToIdle ==
    [][(gui_pc = "cancel_wait" /\ gui_pc' = "loop" /\ vm_manager # None)
        => RefreshDispatches']_vars

\* C4: every accepted request is answered by exactly one terminal event, the
\* cancellation being the one event of a cancelled request: a handler that runs
\* is the first event of its request, which was not cancelled before.
C4_ExactlyOneEvent ==
    [][HandlerRuns => /\ Head(guiQueue).req \notin 1..lastDelivered
                      /\ ~Head(guiQueue).cancelled]_vars

\* C5: the result of a cancelled operation is discarded: when its queued signal
\* is consumed, the display left by cancel is not changed and nothing is
\* scheduled.
C5_CancelledResultDiscarded ==
    [][(HandlerRuns /\ Head(guiQueue).cancelled)
        => UNCHANGED <<uiVars, repolls>>]_vars

\* C6: no handler of the GUI thread waits for an in-flight remote call: the GUI
\* thread is never blocked in wait() while a remote call is outstanding.
C6_GuiNeverWaitsOnRemoteCall == ~(GuiBlocked /\ workerCall # <<>>)

\* C7: an auto-refresh tick issues a status request iff no operation is in
\* flight (the controller being armed); a tick during an operation queues nothing.
C7_TickSkippedWhenBusy ==
    [][RefreshTimerTick =>
         IF InPipeline # {}
         THEN accepted' = accepted /\ timers' = timers
         ELSE RefreshDispatches => accepted' = accepted + 1]_vars

\* C8: the handlers of the terminal events run in the order in which their
\* requests were accepted: each handler run is for a request accepted after
\* every request whose handler ran before (so none is handled twice).
C8_EventsInAcceptanceOrder ==
    [][HandlerRuns => Head(guiQueue).req > lastDelivered]_vars

\* Two events wait in the GUI queue at once, after an earlier one was handled.
C8_Witness == Len(guiQueue) >= 2 /\ lastDelivered >= 1

\* C9: the offered action set is RUNNING -> {stop, nothing}, TERMINATED ->
\* {start, nothing}, any other status -> {start, stop, nothing}: for the menu
\* printed by display_menu, for the selections get_user_choice returns, and for
\* the buttons update_status leaves enabled.
C9_LegalActions ==
    /\ [](program = "menu" /\ m_pc \in {"get_user_choice", "execute"}
            => /\ MenuPrinted = LegalActions(vm_status)
               /\ MenuSelectable(vm_status) = LegalActions(vm_status)
               /\ m_pc = "execute" => choice \in LegalActions(vm_status))
    /\ [][(HandlerRuns /\ HeadSignal.sig = "status_updated")
            => /\ status_label' = HeadSignal.status
               /\ GuiOffered' = LegalActions(HeadSignal.status)]_vars

\* update_status has shown a transitional status and enabled both buttons.
C9_Witness ==
    /\ program = "gui" /\ lastDelivered >= 1
    /\ status_label = "STAGING" /\ start_btn /\ stop_btn

\* C10: whenever the display shows Unknown or Error while a controller is
\* armed and no operation is shown in progress, both Start and Stop are offered.
C10_UnknownErrorOfferBoth ==
    (/\ program = "gui" /\ gui_pc = "loop"
     /\ vm_manager # None /\ worker # None
     /\ ~progress_bar
     /\ status_label \in {"Unknown", "Error"})
    => {"start", "stop"} \subseteq GuiOffered

\* The entry of the printed menu a typed line points at (0: none).
LineNumber(line) ==
    CASE strip(line) = "1" -> 1
      [] strip(line) = "2" -> 2
      [] strip(line) = "3" -> 3
      [] OTHER -> 0

\* The manager call main() makes for a choice.
Dispatched(c) ==
    CASE c = "start" -> <<"start_instance">>
      [] c = "stop" -> <<"stop_instance">>
      [] OTHER -> <<>>

\* C11: a selection resolves to the operation of its kind and only to a legal
\* one.  At the prompt every accepted line yields the menu entry printed under
\* that number, which is legal for the status; main() then dispatches exactly
\* the call of the chosen kind, and none for "nothing".
C11_SelectionResolves ==
    /\ [](program = "menu" /\ m_pc = "get_user_choice"
            => \A line \in MenuLines :
                 LET c == get_user_choice(vm_status, line)
                 IN  c # "invalid" => /\ LineNumber(line) \in 1..Len(menu)
                                      /\ c = menu[LineNumber(line)]
                                      /\ c \in LegalActions(vm_status))
    /\ [][(program = "menu" /\ m_pc = "execute" /\ m_pc' = "done")
            => /\ choice \in LegalActions(vm_status)
               /\ calls' = calls \o Dispatched(choice)]_vars

\* The menu ran with status RUNNING, stop was chosen and stop_instance called.
C11_Witness ==
    /\ program = "menu" /\ m_pc = "done"
    /\ vm_status = "RUNNING" /\ choice = "stop"
    /\ calls = <<"authenticate", "get_instance_status", "stop_instance">>

\* All four fields present and non-empty after trimming whitespace.
PopulatedTrimmed(c) == \A f \in Fields : c[f] # Absent /\ strip(c[f]) # ""

\* C12: validate returns true iff all four fields are present and non-empty
\* after trimming, for a dict passed to it and for the configuration loaded
\* from the file and the environment.
C12_ValidateTrims ==
    /\ call.fn = "validate_config" => (call.ret <=> PopulatedTrimmed(call.arg))
    /\ call.fn = "load_with_environment" => (call.ret <=> PopulatedTrimmed(config))

\* C13: save validates before writing: a save_config of a configuration that
\* fails validation reports failure and leaves the file as it was.
C13_SaveValidates ==
    [][(call'.fn = "save_config" /\ ~validate_config(call'.arg))
        => (~call'.ret /\ saved' = saved)]_vars

\* C13 as amended: the configuration dialog validates before it saves: for
\* dialog texts with a field empty or whitespace-only, save_and_accept does not
\* accept and leaves the file as it was.
C13_DialogValidatesBeforeSave ==
    [][(call'.fn = "save_and_accept" /\ ~PopulatedTrimmed(call'.arg))
        => (~call'.ret /\ saved' = saved)]_vars

\* The dialog refused texts with a blank field while a file was on disk.
C13_Witness ==
    /\ call.fn = "save_and_accept" /\ call.arg = CfgBlank /\ ~call.ret
    /\ saved = File(CfgB)

\* C14: round trip: load_saved_config right after a successful save_config of
\* a valid configuration returns that configuration.
C14_SaveLoadRoundTrip ==
    (/\ call.fn = "load_saved_config"
     /\ prev_call.fn = "save_config" /\ prev_call.ret
     /\ validate_config(prev_call.arg))
    => config = prev_call.arg

\* CfgB was saved and loaded back.
C14_Witness ==
    /\ call.fn = "load_saved_config"
    /\ prev_call.fn = "save_config" /\ prev_call.ret /\ prev_call.arg = CfgB
    /\ config = CfgB

C17_LoadNeverRaises ==
    call.fn = "load_saved_config"
    => /\ call.ret
       /\ saved.state # "json" => config = EmptyDict

\* A failed write left an unparsable file, and load returned {}.
C17_Witness ==
    /\ call.fn = "load_saved_config" /\ saved = Corrupt /\ config = EmptyDict
    /\ prev_call.fn = "save_config" /\ ~prev_call.ret

\* C18: a manager or worker exists, or authenticate was called, only with a
\* configuration whose four fields are populated.
C18_ControllerOnlyFromValidConfig ==
    (vm_manager # None \/ worker # None \/ calls # <<>>) => PopulatedTrimmed(config)

\* Nothing is on its way to the worker thread or running in it.
WorkerPipelineEmpty == timers = <<>> /\ threadQueue = <<>> /\ workerCall = <<>>

\* C19: after a failed authentication no controller is armed.  The main window
\* keeps no manager without a client; while it has no manager it has no worker,
\* nothing is on its way to the worker thread and no request is accepted; the
\* text menu stops after authenticate.
C19_AuthFailureDisarms ==
    /\ [](program = "gui" => vm_manager # Unauthenticated)
    /\ [](program = "gui" /\ gui_pc = "loop" /\ vm_manager = None
            => worker = None /\ WorkerPipelineEmpty)
    /\ [][(program = "gui" /\ vm_manager = None /\ vm_manager' = None)
            => accepted' = accepted]_vars
    /\ [](program = "menu" /\ vm_manager = Unauthenticated
            => m_pc = "exit_1" /\ calls = <<"authenticate">>)

\* A reconfiguration failed to authenticate after a request had been served.
C19_Witness ==
    /\ program = "gui" /\ gui_pc = "loop" /\ lastDelivered >= 1
    /\ vm_manager = None /\ worker = None /\ validate_config(config)
    /\ refresh_btn

\* The signal at the head of the GUI queue reports a failed remote call.
HeadIsFailure ==
    \/ HeadSignal.sig = "error_occurred"
    \/ HeadSignal.sig = "operation_completed" /\ ~HeadSignal.success

\* C20: a failing remote call becomes a failure value (None / False), and
\* after its failure event the progress bar is hidden and a new request is
\* accepted.
C20_FailureReturnsToIdle ==
    /\ [](get_instance_status(Raises) = None
           /\ ~start_instance(Raises) /\ ~stop_instance(Raises))
    /\ [][(HandlerRuns /\ HeadIsFailure)
            => (~progress_bar' /\ refresh_btn' /\ RefreshDispatches')]_vars

C22_ReconfigurationDrains ==
    [][(gui_pc = "init_wait" /\ gui_pc' = "loop")
        => /\ thread_run = "none" /\ workerCall = <<>> /\ threadQueue = <<>>
           /\ guiQueue = <<>>]_vars

\* C23: a rejected configuration change (validation fails, or the save fails)
\* changes neither the configuration, nor the manager and worker, nor the file.
C23_RejectedChangeKeepsState ==
    [][ConfigDialogRejected => UNCHANGED <<config, saved, ctlVars, gui_pc>>]_vars

\* The lifecycle actions among a set of offered actions.
Lifecycle(actions) == actions \cap {"start", "stop"}

\* C24: for every status a status query reports, the Start/Stop buttons that
\* update_status enables are the lifecycle actions the text menu prints and
\* lets the user select for that status.
C24_FrontEndsAgree ==
    /\ [][(HandlerRuns /\ HeadSignal.sig = "status_updated")
            => /\ Lifecycle(GuiOffered')
                    = Lifecycle({display_menu(HeadSignal.status)[i] :
                                   i \in 1..Len(display_menu(HeadSignal.status))})
               /\ Lifecycle(GuiOffered') = Lifecycle(MenuSelectable(HeadSignal.status))]_vars
    /\ [](program = "menu" /\ m_pc = "get_user_choice"
            => /\ ("start" \in MenuPrinted <=> StartEnabledFor(vm_status))
               /\ ("stop" \in MenuPrinted <=> StopEnabledFor(vm_status)))

\* update_status has shown TERMINATED and left only Start enabled.
C24_Witness ==
    /\ program = "gui" /\ lastDelivered >= 1
    /\ status_label = "TERMINATED" /\ start_btn /\ ~stop_btn

\* C25: the handler of a completion leaves the displayed status alone; it
\* schedules one re-poll when the operation succeeded and manager and worker
\* exist, and none otherwise; the display takes a status of the instance only
\* in the handler of a status event.
C25_SuccessMeansAccepted ==
    /\ [][(HandlerRuns /\ HeadSignal.sig = "operation_completed")
            => /\ status_label' = status_label
               /\ accepted' = accepted /\ timers' = timers
               /\ repolls' = IF HeadSignal.success /\ vm_manager # None /\ worker # None
                              THEN repolls + 1 ELSE repolls]_vars
    /\ [][(status_label' # status_label /\ status_label' \in RemoteStatuses)
            => (HandlerRuns /\ HeadSignal.sig = "status_updated")]_vars

\* A start or stop succeeded after a status was shown, and its re-poll waits.
C25_Witness ==
    /\ program = "gui" /\ lastDelivered >= 2 /\ repolls = 1
    /\ status_label = "TERMINATED" /\ ~progress_bar /\ InPipeline = {}

\* C26: after a confirmed reset, and until a configuration is set again, there
\* is no manager and no worker, the status shows Unknown and Start and Stop
\* are disabled; a declined or failed reset changes nothing.
C26_ResetClears ==
    /\ [](program = "gui" /\ gui_pc = "loop" /\ config = EmptyDict
            => /\ vm_manager = None /\ worker = None
               /\ status_label = "Unknown" /\ ~start_btn /\ ~stop_btn)
    /\ [][(gui_pc = "loop" /\ gui_pc' = "reset_wait")
            => (config' = EmptyDict /\ saved' = NoFile
                /\ vm_manager' = None /\ worker' = None)]_vars
    /\ [][ResetDeclinedOrFailed => UNCHANGED <<config, saved, ctlVars, uiVars>>]_vars

\* C27: Start is never enabled while the display shows RUNNING, nor Stop while
\* it shows TERMINATED.
C27_ButtonsAgreeWithStatus ==
    program = "gui"
    => /\ status_label = "RUNNING" => ~start_btn
       /\ status_label = "TERMINATED" => ~stop_btn

\* Requests accepted, not cancelled, whose handler has not run yet.
Outstanding ==
    {e.req : e \in {timers[i] : i \in 1..Len(timers)}
                   \cup {threadQueue[i] : i \in 1..Len(threadQueue)}
                   \cup {workerCall[i] : i \in 1..Len(workerCall)}
                   \cup {e \in {guiQueue[i] : i \in 1..Len(guiQueue)} : ~e.cancelled}}

\* C28: while a dispatched operation has not delivered its terminal event the
\* progress bar is visible and Cancel is enabled.
C28_ProgressWhileOutstanding ==
    (program = "gui" /\ Outstanding # {}) => (progress_bar /\ cancel_btn)

\* The steps the program takes without the user: Qt fires the timers that are
\* due, the worker thread runs and finishes the calls posted to it (every
\* remote call returns) and leaves its loop when told to, the GUI thread
\* handles the events queued to it and returns from wait().  What the user
\* does is left without fairness.
Fairness ==
    /\ WF_vars(TimerFire)
    /\ WF_vars(RefreshTimerTick)
    /\ WF_vars(DelayedRepoll)
    /\ WF_vars(WorkerBegin)
    /\ WF_vars(WorkerReturn)
    /\ WF_vars(WorkerExit)
    /\ WF_vars(DeliverStatusUpdated)
    /\ WF_vars(DeliverOperationCompleted)
    /\ WF_vars(DeliverErrorOccurred)
    /\ WF_vars(CancelEnd)
    /\ WF_vars(ResetEnd)
    /\ WF_vars(InitializeFinish)

FairSpec == Spec /\ Fairness

\* The main window shows no operation in progress.
NotBusy == ~progress_bar /\ ~cancel_btn /\ refresh_btn

\* C29: liveness.  Every request posted to the worker thread has its handler
\* run (or is cancelled by the user); a busy display eventually becomes a
\* not-busy one (progress hidden, Cancel disabled, Refresh enabled); Refresh
\* does not stay disabled forever.
C29_EventuallyIdle ==
    /\ \A r \in 1..MaxRequests :
         (r \in SeqReqs(threadQueue)) ~> (lastDelivered = r \/ gui_pc = "cancel_wait")
    /\ progress_bar ~> NotBusy
    /\ (~refresh_btn) ~> refresh_btn

\* The manager calls of one run, in order.
CallOrder == <<"authenticate", "get_instance_status">>

\* C30: the text menu validates, authenticates, queries the status and then
\* dispatches at most one start or stop: the calls made are a prefix of that
\* order, each step is taken only after the one before succeeded, and a run
\* that failed has dispatched no start or stop.
C30_MenuStepsOrdered ==
    program = "menu"
    => /\ Len(calls) <= 3
       /\ \A i \in 1..Len(calls) :
            IF i <= 2 THEN calls[i] = CallOrder[i]
            ELSE calls[i] \in {"start_instance", "stop_instance"}
       /\ calls # <<>> => validate_config(config)
       /\ Len(calls) >= 2 => vm_manager = "GCPVMManager"
       /\ Len(calls) >= 3 => (vm_status # None /\ m_pc = "done")
       /\ m_pc = "exit_1" => Len(calls) <= 2

\* A run that went through all four steps and started the instance.
C30_Witness ==
    /\ program = "menu" /\ m_pc = "done" /\ vm_status = "TERMINATED"
    /\ calls = <<"authenticate", "get_instance_status", "start_instance">>

====
